---- MODULE Spec2Model ----
(***************************************************************************)
(* Model of src/evaluar.py: the evaluator of a candidate route against a   *)
(* directed weighted graph and a list of workers (eval_instance), and the  *)
(* multi-source Dijkstra it calls (dijkstra_multi_source).                 *)
(*                                                                         *)
(* Quantities (edge weights, radii, distances, costs) are exact integers   *)
(* counted in units of the coverage tolerance, so the tolerance 1e-9 of    *)
(* line 128 is EPS = 1.  TLC's integers are 32 bits wide, so the sentinel  *)
(* INF = 10**18 of line 3 is scaled to 10^6: as in the source it is a      *)
(* finite number, far above every distance that small weights produce,    *)
(* and a weight or a radius may reach it.  float("inf") of lines 103-116   *)
(* is a value of its own (FloatInf), distinct from INF.                    *)
(***************************************************************************)
EXTENDS Integers, Sequences, FiniteSets, Bags, TLC

\* ---- bounds of the model ----
MaxNode == 1
MaxEdges == 3
MaxRoute == 3
MaxWorkers == 1
MaxSources == 2

\* ---- program constants ----
INF == 1000000
EPS == 1
MaxExamples == 5
NoEdge == -1

\* ---- input domains ----
NodeIds == 0..MaxNode
\* ids a route or a worker may name: one more than any edge can define
RefIds == 0..(MaxNode + 1)
\* ids a caller may pass as seeds: negative and too large ones included
SeedIds == (-1)..(MaxNode + 1)
EvalWeights == {1, 2}
EvalRadii == {0, INF}
\* a weight may exceed the sentinel: it is only required to be non-negative
BigWeight == 2 * INF
DijkstraWeights == {0, 1, BigWeight}

SeqsUpTo(S, n) == UNION {[1..k -> S] : k \in 0..n}

VARIABLES
  pc,              \* position in eval_instance / dijkstra_multi_source
  edges,           \* the parsed edge list of grafo.csv
  workers,         \* the parsed worker list
  route,           \* the parsed route
  N, adj, W,       \* locals of eval_instance (lines 83-85)
  i,               \* position of the arc loop of line 107 (1-based pair index)
  cost,            \* local cost (line 106)
  sources,         \* parameter of dijkstra_multi_source
  dist, pq,        \* locals of dijkstra_multi_source
  d, u,            \* the entry popped last (line 46)
  dist_to_route,   \* value returned by dijkstra_multi_source (line 122)
  uncovered_list, feasible, extra,  \* locals of lines 124-136
  out,             \* the record returned by eval_instance
  err              \* the exception raised, "" when none

vars == <<pc, edges, workers, route, N, adj, W, i, cost, sources, dist, pq,
          d, u, dist_to_route, uncovered_list, feasible, extra, out, err>>

NoRecord == [none |-> TRUE]
NoDist == [v \in {} |-> 0]

\* ---- float values of the record's cost field ----
FloatInf == [inf |-> TRUE, val |-> 0]
Float(x) == [inf |-> FALSE, val |-> x]

Max(S) == CHOOSE x \in S : \A y \in S : y <= x

\* ---- load_graph (lines 17-23) ----
NodeCount(es) == 1 + Max({es[k][1] : k \in 1..Len(es)} \cup {es[k][2] : k \in 1..Len(es)})

RECURSIVE AdjList(_, _)
AdjList(es, a) ==
  IF es = <<>> THEN <<>>
  ELSE (IF Head(es)[1] = a THEN << <<Head(es)[2], Head(es)[3]>> >> ELSE <<>>)
       \o AdjList(Tail(es), a)

Adjacency(es) == [a \in 0..(NodeCount(es) - 1) |-> AdjList(es, a)]

\* ---- pack (lines 91-99) ----
pack(f, c, unc, ex) ==
  [feasible |-> f, cost |-> c, workers |-> W, uncovered |-> unc] @@ ex

NoExtra == [x \in {} |-> 0]


\* ---- arc validation of eval_instance (lines 107-117) ----
InRange(x, n) == 0 <= x /\ x < n

\* variant: the last matching edge of the list is taken
RECURSIVE LastEdge(_, _)
LastEdge(lst, b) ==
  IF lst = <<>> THEN NoEdge
  ELSE IF LastEdge(Tail(lst), b) # NoEdge THEN LastEdge(Tail(lst), b)
  ELSE IF Head(lst)[1] = b THEN Head(lst)[2]
  ELSE NoEdge

\* line 114: the weight of the first (nb, ww) of the list with nb = b, or None
RECURSIVE FirstEdge(_, _)
FirstEdge(lst, b) ==
  IF lst = <<>> THEN NoEdge
  ELSE IF Head(lst)[1] = b THEN Head(lst)[2]
  ELSE FirstEdge(Tail(lst), b)

\* variant: only the source of the pair is range-checked
ArcCheckSourceOnly(a, b, n, ad) ==
  IF ~InRange(a, n) THEN "range"
  ELSE IF ~InRange(b, n) \/ FirstEdge(ad[a], b) = NoEdge THEN "missing"
  ELSE "ok"

\* lines 109-116: what the loop body finds for the pair (a, b)
ArcCheck(a, b, n, ad) ==
  IF ~(InRange(a, n) /\ InRange(b, n)) THEN "range"
  ELSE IF FirstEdge(ad[a], b) = NoEdge THEN "missing"
  ELSE "ok"

\* variant: a structural failure reports no uncovered worker
InfeasibleNoneUncovered(reason) == pack(FALSE, FloatInf, 0, [reason |-> reason])

\* lines 103, 110-112, 116: the record of a structural failure
Infeasible(reason) == pack(FALSE, FloatInf, W, [reason |-> reason])

\* line 120: list(dict.fromkeys(route))
RECURSIVE Dedup(_, _)
Dedup(r, seenSet) ==
  IF r = <<>> THEN <<>>
  ELSE IF Head(r) \in seenSet THEN Dedup(Tail(r), seenSet)
  ELSE <<Head(r)>> \o Dedup(Tail(r), seenSet \cup {Head(r)})

\* ---- dijkstra_multi_source (lines 36-54) ----
\* lines 40-44: the seeding loop; the heap is a bag of <<distance, node>>
RECURSIVE SeedLoop(_, _, _, _, _)
SeedLoop(srcs, n, seenSet, dd, q) ==
  IF srcs = <<>> THEN [dist |-> dd, pq |-> q]
  ELSE LET s == Head(srcs) IN
       IF InRange(s, n) /\ s \notin seenSet
       THEN SeedLoop(Tail(srcs), n, seenSet \cup {s},
                     [dd EXCEPT ![s] = 0], q (+) SetToBag({<<0, s>>}))
       ELSE SeedLoop(Tail(srcs), n, seenSet, dd, q)

\* variant: the heap holds (node, distance) and so orders by node first
HeapMinByNode(q) ==
  CHOOSE x \in BagToSet(q) : \A y \in BagToSet(q) :
    x[2] < y[2] \/ (x[2] = y[2] /\ x[1] <= y[1])

\* heapq orders entries as tuples: by distance, then by node
EntryLeq(x, y) == x[1] < y[1] \/ (x[1] = y[1] /\ x[2] <= y[2])
HeapMin(q) == CHOOSE x \in BagToSet(q) : \A y \in BagToSet(q) : EntryLeq(x, y)

\* line 47: a popped entry is stale when its distance is not the recorded one
IsStale(pd, recorded) == pd # recorded

\* line 51
Improves(nd, old) == nd < old

\* lines 49-53: the relaxation loop over adj[u]
RECURSIVE RelaxLoop(_, _, _, _)
RelaxLoop(lst, pd, dd, q) ==
  IF lst = <<>> THEN [dist |-> dd, pq |-> q]
  ELSE LET v == Head(lst)[1]
           nd == pd + Head(lst)[2]
       IN IF Improves(nd, dd[v])
          THEN RelaxLoop(Tail(lst), pd, [dd EXCEPT ![v] = nd], q (+) SetToBag({<<nd, v>>}))
          ELSE RelaxLoop(Tail(lst), pd, dd, q)

\* ---- coverage of eval_instance (lines 124-136) ----
\* line 128
IsUncovered(wd, r) == wd > r + EPS

\* lines 124-129: k is the 0-based index of the worker
RECURSIVE CoverLoop(_, _, _)
CoverLoop(k, ws, dd) ==
  IF ws = <<>> THEN <<>>
  ELSE LET v == Head(ws)[1]
           r == Head(ws)[2]
       IN (IF IsUncovered(dd[v], r) THEN << <<k, v, r, dd[v]>> >> ELSE <<>>)
          \o CoverLoop(k + 1, Tail(ws), dd)

\* variant: feasibility does not look at the uncovered workers
AlwaysFeasible(ul) == TRUE

\* line 131
IsFeasible(ul) == Len(ul) = 0

\* line 134: uncovered_list[:5]
Examples(ul) == SubSeq(ul, 1, IF Len(ul) < MaxExamples THEN Len(ul) ELSE MaxExamples)

\* variant: only the first node of the route is looked at
WarnNeededFirstOnly(r) == r[1] # 0

\* line 135
WarnNeeded(r) == r[1] # 0 \/ r[Len(r)] # 0

\* ---- initial states ----
EdgeSet(ws) == NodeIds \X NodeIds \X ws
WorkerSet == RefIds \X EvalRadii

Locals0 ==
  /\ i = 0 /\ cost = 0
  /\ dist = NoDist /\ pq = EmptyBag /\ d = 0 /\ u = 0
  /\ dist_to_route = NoDist
  /\ uncovered_list = <<>> /\ feasible = FALSE /\ extra = NoExtra
  /\ out = NoRecord /\ err = ""

\* eval_instance is entered with the three parsed inputs
Init ==
  /\ pc = "load"
  /\ edges \in SeqsUpTo(EdgeSet(EvalWeights), MaxEdges)
  /\ workers \in SeqsUpTo(WorkerSet, MaxWorkers)
  /\ route \in SeqsUpTo(RefIds, MaxRoute)
  /\ N = 0 /\ adj = <<>> /\ W = 0 /\ sources = <<>>
  /\ Locals0

\* dijkstra_multi_source is entered with a loaded graph and any seed list
InitDijkstra ==
  /\ pc = "dijkstra"
  /\ edges \in SeqsUpTo(RefIds \X RefIds \X DijkstraWeights, MaxEdges) \ {<<>>}
  /\ workers = <<>> /\ route = <<>> /\ W = 0
  /\ N = NodeCount(edges) /\ adj = Adjacency(edges)
  /\ sources \in SeqsUpTo(SeedIds, MaxSources)
  /\ Locals0

\* ---- eval_instance ----
\* lines 83-88: load_graph raises on an empty edge list
Load ==
  /\ pc = "load"
  /\ IF edges = <<>>
     THEN /\ pc' = "raised" /\ err' = "ValueError"
          /\ UNCHANGED <<N, adj, W>>
     ELSE /\ N' = NodeCount(edges) /\ adj' = Adjacency(edges) /\ W' = Len(workers)
          /\ pc' = "len" /\ UNCHANGED err
  /\ UNCHANGED <<edges, workers, route, i, cost, sources, dist, pq, d, u,
                 dist_to_route, uncovered_list, feasible, extra, out>>

\* lines 102-106
CheckLen ==
  /\ pc = "len"
  /\ IF Len(route) < 2
     THEN /\ out' = Infeasible([kind |-> "short"]) /\ pc' = "done"
          /\ UNCHANGED <<i, cost>>
     ELSE /\ cost' = 0 /\ i' = 1 /\ pc' = "arcs" /\ UNCHANGED out
  /\ UNCHANGED <<edges, workers, route, N, adj, W, sources, dist, pq, d, u,
                 dist_to_route, uncovered_list, feasible, extra, err>>

\* lines 107-117: one iteration of the loop over consecutive pairs
Arc ==
  /\ pc = "arcs" /\ i < Len(route)
  /\ LET a == route[i]
         b == route[i + 1]
         k == ArcCheck(a, b, N, adj)
     IN IF k = "ok"
        THEN /\ cost' = cost + FirstEdge(adj[a], b) /\ i' = i + 1
             /\ UNCHANGED <<pc, out>>
        ELSE /\ out' = Infeasible([kind |-> k, a |-> a, b |-> b]) /\ pc' = "done"
             /\ UNCHANGED <<i, cost>>
  /\ UNCHANGED <<edges, workers, route, N, adj, W, sources, dist, pq, d, u,
                 dist_to_route, uncovered_list, feasible, extra, err>>

\* lines 120-122: the loop is over; call dijkstra_multi_source
CallDijkstra ==
  /\ pc = "arcs" /\ i = Len(route)
  /\ sources' = Dedup(route, {})
  /\ pc' = "dijkstra"
  /\ UNCHANGED <<edges, workers, route, N, adj, W, i, cost, dist, pq, d, u,
                 dist_to_route, uncovered_list, feasible, extra, out, err>>

\* ---- dijkstra_multi_source ----
\* lines 37-44
Seed ==
  /\ pc = "dijkstra"
  /\ LET s == SeedLoop(sources, N, {}, [v \in 0..(N - 1) |-> INF], EmptyBag)
     IN dist' = s.dist /\ pq' = s.pq
  /\ pc' = "loop"
  /\ UNCHANGED <<edges, workers, route, N, adj, W, i, cost, sources, d, u,
                 dist_to_route, uncovered_list, feasible, extra, out, err>>

\* lines 45-46
Pop ==
  /\ pc = "loop" /\ pq # EmptyBag
  /\ LET m == HeapMin(pq)
     IN d' = m[1] /\ u' = m[2] /\ pq' = pq (-) SetToBag({m})
  /\ pc' = "popped"
  /\ UNCHANGED <<edges, workers, route, N, adj, W, i, cost, sources, dist,
                 dist_to_route, uncovered_list, feasible, extra, out, err>>

\* lines 47-48
Skip ==
  /\ pc = "popped" /\ IsStale(d, dist[u])
  /\ pc' = "loop"
  /\ UNCHANGED <<edges, workers, route, N, adj, W, i, cost, sources, dist, pq, d, u,
                 dist_to_route, uncovered_list, feasible, extra, out, err>>

\* lines 49-53
Relax ==
  /\ pc = "popped" /\ ~IsStale(d, dist[u])
  /\ LET r == RelaxLoop(adj[u], d, dist, pq)
     IN dist' = r.dist /\ pq' = r.pq
  /\ pc' = "loop"
  /\ UNCHANGED <<edges, workers, route, N, adj, W, i, cost, sources, d, u,
                 dist_to_route, uncovered_list, feasible, extra, out, err>>

\* line 54
ReturnDist ==
  /\ pc = "loop" /\ pq = EmptyBag
  /\ dist_to_route' = dist
  /\ pc' = "returned"
  /\ UNCHANGED <<edges, workers, route, N, adj, W, i, cost, sources, dist, pq, d, u,
                 uncovered_list, feasible, extra, out, err>>

\* ---- eval_instance, after the call ----
\* lines 124-134: dist_to_route[v] raises IndexError when v is no index of it
Cover ==
  /\ pc = "returned"
  /\ IF \E k \in 1..Len(workers) : workers[k][1] \notin DOMAIN dist_to_route
     THEN /\ pc' = "raised" /\ err' = "IndexError"
          /\ UNCHANGED <<uncovered_list, feasible, extra>>
     ELSE LET ul == CoverLoop(0, workers, dist_to_route)
          IN /\ uncovered_list' = ul
             /\ feasible' = IsFeasible(ul)
             /\ extra' = IF ~IsFeasible(ul) THEN [uncovered_examples |-> Examples(ul)]
                         ELSE NoExtra
             /\ pc' = "warn" /\ UNCHANGED err
  /\ UNCHANGED <<edges, workers, route, N, adj, W, i, cost, sources, dist, pq, d, u,
                 dist_to_route, out>>

\* lines 135-136
Warn ==
  /\ pc = "warn"
  /\ extra' = IF WarnNeeded(route) THEN extra @@ [warning |-> TRUE] ELSE extra
  /\ pc' = "pack"
  /\ UNCHANGED <<edges, workers, route, N, adj, W, i, cost, sources, dist, pq, d, u,
                 dist_to_route, uncovered_list, feasible, out, err>>

\* line 138
Return ==
  /\ pc = "pack"
  /\ out' = pack(feasible, Float(cost), Len(uncovered_list), extra)
  /\ pc' = "done"
  /\ UNCHANGED <<edges, workers, route, N, adj, W, i, cost, sources, dist, pq, d, u,
                 dist_to_route, uncovered_list, feasible, extra, err>>

Dijkstra == Seed \/ Pop \/ Skip \/ Relax \/ ReturnDist

Next == Load \/ CheckLen \/ Arc \/ CallDijkstra \/ Dijkstra \/ Cover \/ Warn \/ Return

NextDijkstra == Dijkstra

Spec == Init /\ [][Next]_vars

SpecDijkstra == InitDijkstra /\ [][NextDijkstra]_vars


\* ======================================================================
\* Reference notions, stated on the inputs alone
\* ======================================================================
\* the node ids of the graph: 0 .. the largest id some edge names
IsNode(x) == x >= 0 /\ \E k \in 1..Len(edges) : x <= edges[k][1] \/ x <= edges[k][2]
HasEdge(a, b) == \E k \in 1..Len(edges) : edges[k][1] = a /\ edges[k][2] = b
Pairs == 1..(Len(route) - 1)
PairOutOfRange(k) == ~IsNode(route[k]) \/ ~IsNode(route[k + 1])
PairDefect(k) == PairOutOfRange(k) \/ ~HasEdge(route[k], route[k + 1])
StructValid == Len(route) >= 2 /\ \A k \in Pairs : ~PairDefect(k)
FirstDefect == CHOOSE k \in Pairs : PairDefect(k) /\ \A j \in Pairs : PairDefect(j) => k <= j

\* weight of the first edge a->b of the edge list
FirstWeight(a, b) ==
  LET k == CHOOSE k \in 1..Len(edges) :
             /\ edges[k][1] = a /\ edges[k][2] = b
             /\ \A j \in 1..(k - 1) : ~(edges[j][1] = a /\ edges[j][2] = b)
  IN edges[k][3]
RECURSIVE WalkCost(_)
WalkCost(k) == IF k = 0 THEN 0 ELSE WalkCost(k - 1) + FirstWeight(route[k], route[k + 1])

\* the weight of a shortest directed path of at most k edges from a node of S
\* to v, as a set: one number, or empty when there is no such path
Min(S) == CHOOSE x \in S : \A y \in S : x <= y
RECURSIVE PathDist(_, _, _)
PathDist(S, v, k) ==
  IF k = 0 THEN (IF v \in S THEN {0} ELSE {})
  ELSE LET all == PathDist(S, v, k - 1) \cup
                    UNION {{x + edges[e][3] : x \in PathDist(S, edges[e][1], k - 1)} :
                             e \in {e \in 1..Len(edges) : edges[e][2] = v}}
       IN IF all = {} THEN {} ELSE {Min(all)}
Reaches(S, v) == PathDist({s \in S : IsNode(s)}, v, Len(edges)) # {}
TrueDist(S, v) == Min(PathDist({s \in S : IsNode(s)}, v, Len(edges)))
RouteNodes == {route[k] : k \in 1..Len(route)}
SeedNodes == {sources[k] : k \in 1..Len(sources)}
\* worker k (1-based) is within its radius of the route, by true distances
TrulyCovered(k) ==
  /\ Reaches(RouteNodes, workers[k][1])
  /\ TrueDist(RouteNodes, workers[k][1]) <= workers[k][2] + EPS
Listed(k) == \E e \in 1..Len(uncovered_list) : uncovered_list[e][1] = k - 1


\* ======================================================================
\* Claims
\* ======================================================================

\* C1: every returned record satisfies: feasible implies uncovered = 0 and a
\* finite cost; uncovered > 0 or a structural route error implies not feasible.
C1_RecordInvariant ==
  pc = "done" =>
    /\ out.feasible => (out.uncovered = 0 /\ ~out.cost.inf)
    /\ (out.uncovered > 0 \/ ~StructValid) => ~out.feasible
\* a feasible record with a worker of radius 0 that the route covers
C1_Witness ==
  pc = "done" /\ out.feasible /\ out.workers = 1 /\ workers[1][2] = 0

\* C2: with a non-empty edge list the evaluator never raises, whatever the
\* workers and the route are.
C2_OnlyEmptyGraphRaises == pc = "raised" => edges = <<>>

\* C3: feasible holds exactly when the route is structurally valid and every
\* worker is within radius + tolerance of the route by true shortest-path
\* distance; for a valid route, uncovered counts the workers that are not.
C3_FeasibleIffCovered ==
  pc = "done" =>
    /\ out.feasible <=> (StructValid /\ \A k \in 1..Len(workers) : TrulyCovered(k))
    /\ StructValid =>
         out.uncovered = Cardinality({k \in 1..Len(workers) : ~TrulyCovered(k)})

\* C4: dijkstra_multi_source returns, for every node, the weight of a shortest
\* path from the nearest in-range seed, and the sentinel exactly for the nodes
\* that no seed reaches.
C4_TrueDistances ==
  pc = "returned" =>
    \A v \in DOMAIN dist_to_route :
      IF Reaches(SeedNodes, v)
      THEN dist_to_route[v] = TrueDist(SeedNodes, v) /\ dist_to_route[v] # INF
      ELSE dist_to_route[v] = INF

\* C5: a structural failure yields the record (feasible = false, infinite cost,
\* workers = uncovered = the worker count, a reason), and neither the
\* shortest-path computation nor the coverage check runs on that path.
C5_StructuralFailure ==
  ~StructValid =>
    /\ pc \in {"load", "len", "arcs", "done", "raised"}
    /\ sources = <<>> /\ dist = NoDist /\ pq = EmptyBag /\ dist_to_route = NoDist
    /\ uncovered_list = <<>>
    /\ pc = "done" =>
         /\ out.feasible = FALSE /\ out.cost = FloatInf
         /\ out.workers = Len(workers) /\ out.uncovered = Len(workers)
         /\ "reason" \in DOMAIN out
         /\ "uncovered_examples" \notin DOMAIN out
\* a failure found at the second arc, after the first was costed, with a worker
C5_Witness ==
  pc = "done" /\ ~StructValid /\ Len(workers) = 1 /\ Len(route) = 3 /\ i = 2

\* C6: the reason names the first defective pair in route order, with that
\* pair's kind of defect, and the scan never goes past that pair.
C6_FailFast ==
  (edges # <<>> /\ Len(route) >= 2 /\ ~StructValid) =>
    LET k == FirstDefect
    IN /\ i <= k
       /\ pc = "done" =>
            /\ i = k
            /\ out.reason = [kind |-> IF PairOutOfRange(k) THEN "range" ELSE "missing",
                             a |-> route[k], b |-> route[k + 1]]
\* a route whose first pair lacks an edge and whose second pair is out of range
C6_Witness ==
  /\ pc = "done" /\ Len(route) = 3
  /\ PairDefect(1) /\ ~PairOutOfRange(1) /\ PairOutOfRange(2)

\* C7: for a structurally valid route the cost is the sum, in route order, of
\* the weight of the first edge a->b of the edge list for each pair (a, b).
C7_CostIsFirstEdgeSum ==
  (pc = "done" /\ StructValid) => out.cost = Float(WalkCost(Len(route) - 1))
\* a route that takes twice a pair with parallel edges, the first the heavier
C7_Witness ==
  /\ pc = "done" /\ StructValid /\ Len(route) = 3
  /\ route[1] = route[2] /\ route[2] = route[3]
  /\ \E e1, e2 \in 1..Len(edges) :
       /\ e1 < e2 /\ edges[e1][3] > edges[e2][3]
       /\ edges[e1][1] = route[1] /\ edges[e1][2] = route[1]
       /\ edges[e2][1] = route[1] /\ edges[e2][2] = route[1]

\* C8 (as claimed): every returned record of a route whose first or last node
\* is not 0 carries the warning, and one of a route from 0 to 0 carries none.
C8_WarningOnEveryRecord ==
  (pc = "done" /\ Len(route) >= 1) =>
    ("warning" \in DOMAIN out <=> (route[1] # 0 \/ route[Len(route)] # 0))

\* C8 (amended): the record of a structurally valid route carries the warning
\* exactly when its first or last node is not 0, the record of a structural
\* failure carries none, and attaching the warning changes neither feasible
\* nor cost.
C8_WarningOnValidRoutes ==
  /\ [](pc = "done" =>
          ("warning" \in DOMAIN out <=>
             (StructValid /\ (route[1] # 0 \/ route[Len(route)] # 0))))
  /\ [][pc = "warn" => (feasible' = feasible /\ cost' = cost)]_vars
  /\ []((pc = "done" /\ StructValid) =>
          (out.feasible = feasible /\ out.cost = Float(cost)))
\* an infeasible record of a valid route away from node 0, with the warning
C8_Witness ==
  /\ pc = "done" /\ StructValid /\ "warning" \in DOMAIN out
  /\ out.uncovered = 1 /\ ~out.feasible

\* C9: for a structurally valid route, a worker whose node no route node
\* reaches is counted as uncovered, whatever its radius.
C9_UnreachableUncovered ==
  (pc = "done" /\ StructValid) =>
    \A k \in 1..Len(workers) :
      (/\ dist_to_route[workers[k][1]] = INF
       /\ ~Reaches(RouteNodes, workers[k][1])) => Listed(k)

\* C10: a node popped with its recorded distance keeps that distance for ever,
\* and a stale entry changes no distance and pushes nothing.  A node is settled
\* when its recorded distance has no entry left in the frontier: a node popped
\* with its recorded distance is settled, and a settled node stays settled with
\* the same distance.
Settled(n) == n \in DOMAIN dist /\ dist[n] # INF /\ <<dist[n], n>> \notin BagToSet(pq)
C10_Finalized ==
  /\ []((pc = "popped" /\ d = dist[u]) => Settled(u))
  /\ [][\A n \in RefIds : Settled(n) => (Settled(n)' /\ dist'[n] = dist[n])]_vars
  /\ [][(pc = "popped" /\ d # dist[u]) => (dist' = dist /\ pq' = pq)]_vars
\* a stale entry is popped in a graph of three nodes
C10_Witness == pc = "popped" /\ d # dist[u] /\ N = 3

====
